---- MODULE Spec2Model ----
(***************************************************************************)
(* Model of excel_to_json.py: the vehicle catalog converter.               *)
(*                                                                         *)
(* Text is a sequence of characters, each character a string; the peso     *)
(* sign and the en dash are the characters "PESO" and "ENDASH".  A Python  *)
(* value is a tagged record: None, StrVal(text) or IntVal(n).  A Python    *)
(* int that was parsed from text is kept as its decimal digits (no leading *)
(* zero), so that it is unbounded as in Python.                            *)
(*                                                                         *)
(* The sources are read as the code reads them: whether a file or a sheet  *)
(* exists is found out at the head of the category loop, and the rows come *)
(* one by one from the reader.  Failures of the file system and of the     *)
(* workbook parser (an unreadable file, a file that is no workbook) are    *)
(* not modelled.                                                           *)
(***************************************************************************)
EXTENDS Integers, Sequences, FiniteSets, TLC

VARIABLES
    \* the converter run
    mode,       \* "excel" when a file argument was given, else "csv"
    rootExists, \* whether templates/ (csv) or the workbook file (excel) exists
    pc,         \* "main", "loop", "rows", "done", "exited" or "crashed"
    ci,         \* position of the category loop in CATEGORY_MAPPING
    absent,     \* positions of the categories whose file or sheet was missing
    ncols,      \* columns of the sheet being read (excel)
    rows,       \* the data rows read so far from the current source
    models,     \* the models list of the current category
    categories, \* the categories list
    blocks,     \* for each entry of categories, the rows that were read for it
    saves,      \* calls of save_json
    written,    \* data/vehicles.json
    exitCode,   \* -1 while running, else the exit status of the process
    \* one call of the price formatter, and a second one on its result
    arg, out, again, fpc

runVars == <<mode, rootExists, pc, ci, absent, ncols, rows, models, categories,
             blocks, saves, written, exitCode>>
fmtVars == <<arg, out, again, fpc>>
vars == <<runVars, fmtVars>>

\* ------------------------------------------------------------------ bounds

\* Longest input of the price formatter, counted in chunks of Chunks.
MaxChunks == 4
\* Most data rows read in one run, over all categories.
MaxRows == 2

\* ----------------------------------------------------------- Python values

None == [k |-> "none"]
StrVal(s) == [k |-> "str", v |-> s]
IntVal(n) == [k |-> "int", v |-> n]
IsNone(x) == x.k = "none"

Peso == "PESO"
EnDash == "ENDASH"

DigitChars == <<"0", "1", "2", "3", "4", "5", "6", "7", "8", "9">>
UpperChars == <<"A", "B", "C", "D", "E", "F", "G", "H", "I", "J", "K", "L", "M",
                "N", "O", "P", "Q", "R", "S", "T", "U", "V", "W", "X", "Y", "Z">>
LowerChars == <<"a", "b", "c", "d", "e", "f", "g", "h", "i", "j", "k", "l", "m",
                "n", "o", "p", "q", "r", "s", "t", "u", "v", "w", "x", "y", "z">>

IsDigit(c) == \E i \in 1..10 : DigitChars[i] = c
DigitVal(c) == (CHOOSE i \in 1..10 : DigitChars[i] = c) - 1
IsSpace(c) == c = " "
IsDash(c) == c = "-" \/ c = EnDash

\* bool(x): None, "" and 0 are false.
Truthy(x) ==
    CASE x.k = "none" -> FALSE
      [] x.k = "str" -> Len(x.v) > 0
      [] x.k = "int" -> x.v # 0

RECURSIVE NatDigits(_)
NatDigits(n) ==
    IF n < 10 THEN <<DigitChars[n + 1]>>
    ELSE NatDigits(n \div 10) \o <<DigitChars[(n % 10) + 1]>>

\* str(x) of a str or an int.
PyStr(x) ==
    CASE x.k = "str" -> x.v
      [] x.k = "int" -> IF x.v < 0 THEN <<"-">> \o NatDigits(-x.v) ELSE NatDigits(x.v)
      [] x.k = "none" -> <<"N", "o", "n", "e">>

\* str.strip(): the text without its leading and trailing whitespace.
Strip(s) ==
    LET keep == {i \in 1..Len(s) : ~IsSpace(s[i])}
    IN  IF keep = {} THEN <<>>
        ELSE LET lo == CHOOSE i \in keep : \A j \in keep : i <= j
                 hi == CHOOSE i \in keep : \A j \in keep : i >= j
             IN  SubSeq(s, lo, hi)

LowerChar(c) ==
    IF \E i \in 1..26 : UpperChars[i] = c
    THEN LowerChars[CHOOSE i \in 1..26 : UpperChars[i] = c]
    ELSE c

\* str.lower()
Lower(s) == [i \in 1..Len(s) |-> LowerChar(s[i])]

\* sub in s
Contains(s, sub) ==
    \E i \in 1..(Len(s) - Len(sub) + 1) : SubSeq(s, i, i + Len(sub) - 1) = sub

Request == <<"r", "e", "q", "u", "e", "s", "t">>
PriceOnRequest ==
    <<"P", "r", "i", "c", "e", " ", "o", "n", " ", "R", "e", "q", "u", "e", "s", "t">>

\* ------------------------------------------------------ format_price_range

\* How many whitespace characters s holds from position i on.
RECURSIVE SpaceRun(_, _)
SpaceRun(s, i) ==
    IF i <= Len(s) /\ IsSpace(s[i]) THEN 1 + SpaceRun(s, i + 1) ELSE 0

\* re.split(r"\s*[ENDASH-]\s*", s): the scan is at position i, the piece being
\* collected began at start.  A match begins at the leftmost i from which a run
\* of whitespace is followed by a dash, and takes the whitespace after the dash.
RECURSIVE SplitFrom(_, _, _)
SplitFrom(s, start, i) ==
    IF i > Len(s) THEN <<SubSeq(s, start, Len(s))>>
    ELSE LET j == i + SpaceRun(s, i)
         IN  IF j <= Len(s) /\ IsDash(s[j])
             THEN LET e == j + 1 + SpaceRun(s, j + 1)
                  IN  <<SubSeq(s, start, i - 1)>> \o SplitFrom(s, e, e)
             ELSE SplitFrom(s, start, i + 1)

SplitRange(s) == SplitFrom(s, 1, 1)

\* re.sub(r"[^0-9.]", "", part)
NumRaw(part) == SelectSeq(part, LAMBDA c : IsDigit(c) \/ c = ".")

\* int(num_raw) of a text of digits: its digits without the leading zeros.
RECURSIVE ParseInt(_)
ParseInt(ds) ==
    IF Len(ds) > 1 /\ Head(ds) = "0" THEN ParseInt(Tail(ds)) ELSE ds

\* format(value, ","): the digits in groups of three from the right.
RECURSIVE GroupFrom(_, _)
GroupFrom(ds, i) ==
    IF i > Len(ds) THEN <<>>
    ELSE (IF i > 1 /\ (Len(ds) - i + 1) % 3 = 0 THEN <<",">> ELSE <<>>)
         \o <<ds[i]>> \o GroupFrom(ds, i + 1)

\* Grouped with the groups counted from the left.
RECURSIVE GroupLeftFrom(_, _)
GroupLeftFrom(ds, i) ==
    IF i > Len(ds) THEN <<>>
    ELSE (IF i > 1 /\ (i - 1) % 3 = 0 THEN <<",">> ELSE <<>>)
         \o <<ds[i]>> \o GroupLeftFrom(ds, i + 1)

GroupedFromLeft(ds) == GroupLeftFrom(ds, 1)

\* Grouped with a point between the groups.
GroupedWithPoints(ds) ==
    LET g == GroupFrom(ds, 1)
    IN  [i \in 1..Len(g) |-> IF g[i] = "," THEN "." ELSE g[i]]

Grouped(ds) == GroupFrom(ds, 1)

\* The digits of the integer one above the integer of digits ds.
RECURSIVE Succ(_)
Succ(ds) ==
    IF ds = <<>> THEN <<"1">>
    ELSE IF ds[Len(ds)] = "9" THEN Succ(SubSeq(ds, 1, Len(ds) - 1)) \o <<"0">>
    ELSE SubSeq(ds, 1, Len(ds) - 1) \o <<DigitChars[DigitVal(ds[Len(ds)]) + 2]>>

\* float(num_raw) raises ValueError unless the text holds one point and a digit.
FloatOk(num) ==
    /\ Cardinality({i \in 1..Len(num) : num[i] = "."}) = 1
    /\ \E i \in 1..Len(num) : IsDigit(num[i])

\* format(float(num_raw), ",.2f").  The value in hundredths is the integer and
\* the first two fraction digits; what follows rounds it up when above a half
\* and, at a half, to the even hundredth (Python rounds the binary value: a
\* half that a double holds exactly, such as .125, rounds to even).
FormatFloat(num) ==
    LET p == CHOOSE i \in 1..Len(num) : num[i] = "."
        ip == SubSeq(num, 1, p - 1)
        fp == SubSeq(num, p + 1, Len(num))
        f2 == SubSeq(fp \o <<"0", "0">>, 1, 2)
        rest == SubSeq(fp, 3, Len(fp))
        restZero == \A i \in 1..Len(rest) : rest[i] = "0"
        tail == SubSeq(rest, 2, Len(rest))
        tailZero == \A i \in 1..Len(tail) : tail[i] = "0"
        up == /\ ~restZero
              /\ \/ DigitVal(rest[1]) > 5
                 \/ DigitVal(rest[1]) = 5 /\ ~tailZero
                 \/ DigitVal(rest[1]) = 5 /\ tailZero /\ DigitVal(f2[2]) % 2 = 1
        hund == ParseInt((IF ip = <<>> THEN <<"0">> ELSE ip) \o f2)
        h == IF up THEN Succ(hund) ELSE hund
        padded == IF Len(h) < 3 THEN SubSeq(<<"0", "0">>, 1, 3 - Len(h)) \o h ELSE h
    IN  <<Peso>> \o Grouped(SubSeq(padded, 1, Len(padded) - 2))
        \o <<".">> \o SubSeq(padded, Len(padded) - 1, Len(padded))

FormatInt(num) == <<Peso>> \o Grouped(ParseInt(num))

\* One pass of the loop body: the formatted part, or None when the part has no
\* number or the number does not parse (the two "return s" exits).
FormatPart(part) ==
    LET num == NumRaw(part)
    IN  IF num = <<>> THEN None
        ELSE IF \E i \in 1..Len(num) : num[i] = "."
             THEN IF FloatOk(num) THEN StrVal(FormatFloat(num)) ELSE None
             ELSE StrVal(FormatInt(num))

\* ' ENDASH '.join(parts)
RECURSIVE JoinParts(_)
JoinParts(fs) ==
    IF Len(fs) = 0 THEN <<>>
    ELSE IF Len(fs) = 1 THEN fs[1]
    ELSE fs[1] \o <<" ", EnDash, " ">> \o JoinParts(Tail(fs))

\* format_price_range returning what it has formatted so far when a part fails.
PartialOnFailure(raw) ==
    IF IsNone(raw) THEN <<>>
    ELSE LET s == Strip(PyStr(raw))
         IN  IF s = <<>> THEN <<>>
             ELSE IF Contains(Lower(s), Request) THEN PriceOnRequest
             ELSE LET parts == SplitRange(s)
                      fmt == [i \in 1..Len(parts) |-> FormatPart(parts[i])]
                      bad == {i \in 1..Len(parts) : IsNone(fmt[i])}
                      n == IF bad = {} THEN Len(parts)
                           ELSE (CHOOSE i \in bad : \A j \in bad : i <= j) - 1
                  IN  JoinParts([i \in 1..n |-> fmt[i].v])

format_price_range(raw) ==
    IF IsNone(raw) THEN <<>>
    ELSE LET s == Strip(PyStr(raw))
         IN  IF s = <<>> THEN <<>>
             ELSE IF Contains(Lower(s), Request) THEN PriceOnRequest
             ELSE LET parts == SplitRange(s)
                      fmt == [i \in 1..Len(parts) |-> FormatPart(parts[i])]
                  IN  IF \E i \in 1..Len(parts) : IsNone(fmt[i]) THEN s
                      ELSE IF Len(parts) = 1 THEN fmt[1].v
                      ELSE JoinParts([i \in 1..Len(parts) |-> fmt[i].v])

\* --------------------------------------------- the formatter, call by call

Chunks ==
    { <<"0">>, <<"7">>, <<"1", "2", "5", "0">>, <<".">>, <<"-">>,
      <<" ", EnDash, " ">>, <<" ">>, <<"P">>,
      <<"r", "e", "q", "u", "e", "s", "t">>,
      <<"R", "e", "q", "u", "e", "s", "t">> }

RECURSIVE Texts(_)
Texts(n) ==
    IF n = 0 THEN {<<>>}
    ELSE LET t == Texts(n - 1) IN t \cup {x \o c : x \in t, c \in Chunks}

\* What a cell or a field hands to the formatter: None, a text, or a number.
RawInputs ==
    {None} \cup {StrVal(t) : t \in Texts(MaxChunks)}
           \cup {IntVal(0), IntVal(-7), IntVal(1250000)}

FmtIdle == arg = None /\ out = <<>> /\ again = <<>> /\ fpc = "idle"

FormatInit ==
    /\ arg \in RawInputs
    /\ out = <<>>
    /\ again = <<>>
    /\ fpc = "call"

\* out = format_price_range(arg)
Format ==
    /\ fpc = "call"
    /\ out' = format_price_range(arg)
    /\ fpc' = "returned"
    /\ UNCHANGED <<arg, again, runVars>>

\* format_price_range applied to its own result
Reformat ==
    /\ fpc = "returned"
    /\ again' = format_price_range(StrVal(out))
    /\ fpc' = "reformatted"
    /\ UNCHANGED <<arg, out, runVars>>

\* ------------------------------------------------------- the converter run

\* CATEGORY_MAPPING, in its insertion order (the order .items() yields).
CATEGORY_MAPPING ==
    << [sheet |-> "Passenger Vehicles", csv_name |-> "Passenger Vehicles.csv",
        id |-> "passenger", name |-> "Passenger Vehicles",
        subtitle |-> "Personal & Family", icon |-> "family",
        description |-> "Personal & Family vehicles for everyday comfort"],
       [sheet |-> "Light Commercial", csv_name |-> "Light Commercial.csv",
        id |-> "light-commercial", name |-> "Light Commercial Vehicles",
        subtitle |-> "Small Business", icon |-> "store",
        description |-> "Small Business solutions for efficient operations"],
       [sheet |-> "Medium Duty Trucks", csv_name |-> "Medium Duty Trucks.csv",
        id |-> "medium-duty", name |-> "Light to Medium Duty Trucks",
        subtitle |-> "N-Series & F-Series", icon |-> "truck",
        description |-> "N-Series & F-Series for versatile hauling"],
       [sheet |-> "Heavy Duty GIGA", csv_name |-> "Heavy Duty GIGA.csv",
        id |-> "heavy-duty", name |-> "Heavy Duty & Special Purpose",
        subtitle |-> "GIGA", icon |-> "muscle",
        description |-> "GIGA series for demanding operations"] >>

NoFile == [k |-> "none"]
Document(cats) == [k |-> "doc", categories |-> cats]

\* The category object built from category_info and the models list.
Category(info, ms) ==
    [id |-> info.id, name |-> info.name, subtitle |-> info.subtitle,
     icon |-> info.icon, description |-> info.description, models |-> ms]

\* A row of csv.DictReader: a field is None when the row is shorter than the
\* header (restval) or the header has no such column.
CsvRows ==
    { [Model |-> m, Variant |-> v, Price |-> p] :
        m \in {None, StrVal(<<>>), StrVal(<<" ">>), StrVal(<<" ", "D">>)},
        v \in {None, StrVal(<<"L", "S", " ">>)},
        p \in {None, StrVal(<<"1", "2", "5", "0">>)} }

\* A row of ws.iter_rows(values_only=True): a tuple of as many cells as the
\* sheet has columns, None for a cell that holds nothing.
ExcelRows(n) ==
    { SubSeq(<<a, b, c>>, 1, n) :
        a \in {None, StrVal(<<>>), StrVal(<<" ">>), StrVal(<<" ", "D">>), IntVal(0)},
        b \in {None, StrVal(<<"L", "S", " ">>)},
        c \in {None, IntVal(1250)} }

RECURSIVE SumLen(_)
SumLen(bs) == IF bs = <<>> THEN 0 ELSE Len(Head(bs)) + SumLen(Tail(bs))

\* Data rows read since the run began.
RowsRead == Len(rows) + SumLen(blocks)

RunIdle ==
    /\ mode = "csv" /\ rootExists = FALSE /\ pc = "idle" /\ ci = 1
    /\ absent = {} /\ ncols = 0 /\ rows = <<>> /\ models = <<>>
    /\ categories = <<>> /\ blocks = <<>> /\ saves = 0 /\ written = NoFile
    /\ exitCode = -1

RunInit ==
    /\ mode \in {"csv", "excel"}
    /\ rootExists \in BOOLEAN
    /\ pc = "main"
    /\ ci = 1
    /\ absent = {}
    /\ ncols = 0
    /\ rows = <<>>
    /\ models = <<>>
    /\ categories = <<>>
    /\ blocks = <<>>
    /\ saves = 0
    /\ written = NoFile
    /\ exitCode = -1

\* csv_to_json without the check of templates/.
CsvStartUnchecked ==
    /\ pc = "main"
    /\ mode = "csv"
    /\ pc' = "loop"
    /\ categories' = <<>>
    /\ UNCHANGED <<mode, rootExists, ci, absent, ncols, rows, models, blocks,
                   saves, written, exitCode, fmtVars>>

\* if not templates_dir.exists(): sys.exit(1)
CsvStart ==
    /\ pc = "main"
    /\ mode = "csv"
    /\ IF ~rootExists
       THEN pc' = "exited" /\ exitCode' = 1
       ELSE pc' = "loop" /\ exitCode' = exitCode
    /\ categories' = <<>>
    /\ UNCHANGED <<mode, rootExists, ci, absent, ncols, rows, models, blocks,
                   saves, written, fmtVars>>

\* if not Path(excel_file).exists(): sys.exit(1)
ExcelStart ==
    /\ pc = "main"
    /\ mode = "excel"
    /\ IF ~rootExists
       THEN pc' = "exited" /\ exitCode' = 1
       ELSE pc' = "loop" /\ exitCode' = exitCode
    /\ categories' = <<>>
    /\ UNCHANGED <<mode, rootExists, ci, absent, ncols, rows, models, blocks,
                   saves, written, fmtVars>>

\* The head of the category loop: a missing file is skipped (continue), a
\* present one starts with an empty models list.
CsvCategory ==
    /\ pc = "loop"
    /\ mode = "csv"
    /\ ci <= Len(CATEGORY_MAPPING)
    /\ \E exists \in BOOLEAN :
        IF ~exists
        THEN /\ absent' = absent \cup {ci}
             /\ ci' = ci + 1
             /\ UNCHANGED <<pc, models, rows>>
        ELSE /\ pc' = "rows"
             /\ models' = <<>>
             /\ rows' = <<>>
             /\ UNCHANGED <<ci, absent>>
    /\ UNCHANGED <<mode, rootExists, ncols, categories, blocks, saves, written,
                   exitCode, fmtVars>>

\* if sheet_name not in wb.sheetnames: continue; else ws = wb[sheet_name].
\* The sheet has n columns; one of more than three reads as one of three.
ExcelCategory ==
    /\ pc = "loop"
    /\ mode = "excel"
    /\ ci <= Len(CATEGORY_MAPPING)
    /\ \E exists \in BOOLEAN, n \in 1..3 :
        IF ~exists
        THEN /\ absent' = absent \cup {ci}
             /\ ci' = ci + 1
             /\ UNCHANGED <<pc, models, rows, ncols>>
        ELSE /\ pc' = "rows"
             /\ models' = <<>>
             /\ rows' = <<>>
             /\ ncols' = n
             /\ UNCHANGED <<ci, absent>>
    /\ UNCHANGED <<mode, rootExists, categories, blocks, saves, written,
                   exitCode, fmtVars>>

\* The break taken for a missing Model only.
CsvStopOnNone(row) == IsNone(row.Model)

\* if row is None or not row.get('Model'): break
CsvStop(row) == ~Truthy(row.Model)

\* row.get('Variant', '') is None for a short row, and None has no strip():
\* AttributeError.  (Model is not None here: the row passed the break.)
CsvRaises(row) == IsNone(row.Variant)

\* The dict appended for a row.
CsvRecord(row) ==
    [model |-> Strip(row.Model.v), variant |-> Strip(row.Variant.v),
     priceRange |-> format_price_range(row.Price)]

\* if row[0] is None: break
ExcelStop(row) == IsNone(row[1])

\* row[1] or row[2] of a row of fewer than three cells: IndexError.
ExcelRaises(row) == Len(row) < 3

\* x if x else ""
OrEmpty(x) == IF Truthy(x) THEN x ELSE StrVal(<<>>)

\* if model: (model is row[0] if row[0] else "")
ExcelKeep(row) == Truthy(OrEmpty(row[1]))

ExcelRecord(row) ==
    [model |-> Strip(PyStr(OrEmpty(row[1]))),
     variant |-> Strip(PyStr(OrEmpty(row[2]))),
     priceRange |-> format_price_range(OrEmpty(row[3]))]

\* The category is assembled and appended; the loop goes to the next one.
Assemble(block) ==
    /\ categories' = Append(categories, Category(CATEGORY_MAPPING[ci], models))
    /\ blocks' = Append(blocks, block)
    /\ rows' = <<>>
    /\ ci' = ci + 1
    /\ pc' = "loop"

\* An exception nothing catches: traceback, exit status 1.
Crash ==
    /\ pc' = "crashed"
    /\ exitCode' = 1

\* One pass of "for row in reader".
CsvRow ==
    /\ pc = "rows"
    /\ mode = "csv"
    /\ RowsRead < MaxRows
    /\ \E row \in CsvRows :
        IF CsvStop(row)
        THEN /\ Assemble(Append(rows, row))
             /\ UNCHANGED <<models, exitCode>>
        ELSE IF CsvRaises(row)
        THEN /\ Crash
             /\ rows' = Append(rows, row)
             /\ UNCHANGED <<models, categories, blocks, ci>>
        ELSE /\ models' = Append(models, CsvRecord(row))
             /\ rows' = Append(rows, row)
             /\ UNCHANGED <<pc, categories, blocks, ci, exitCode>>
    /\ UNCHANGED <<mode, rootExists, absent, ncols, saves, written, fmtVars>>

\* The reader has no more rows.
CsvEnd ==
    /\ pc = "rows"
    /\ mode = "csv"
    /\ Assemble(rows)
    /\ UNCHANGED <<mode, rootExists, absent, ncols, models, saves, written,
                   exitCode, fmtVars>>

\* One pass of "for row in ws.iter_rows(min_row=2, values_only=True)": row[1]
\* and row[2] raise IndexError on a sheet of fewer columns.
ExcelRow ==
    /\ pc = "rows"
    /\ mode = "excel"
    /\ RowsRead < MaxRows
    /\ \E row \in ExcelRows(ncols) :
        IF ExcelStop(row)
        THEN /\ Assemble(Append(rows, row))
             /\ UNCHANGED <<models, exitCode>>
        ELSE IF ExcelRaises(row)
        THEN /\ Crash
             /\ rows' = Append(rows, row)
             /\ UNCHANGED <<models, categories, blocks, ci>>
        ELSE /\ models' = IF ExcelKeep(row) THEN Append(models, ExcelRecord(row))
                          ELSE models
             /\ rows' = Append(rows, row)
             /\ UNCHANGED <<pc, categories, blocks, ci, exitCode>>
    /\ UNCHANGED <<mode, rootExists, absent, ncols, saves, written, fmtVars>>

\* The sheet has no more rows.
ExcelEnd ==
    /\ pc = "rows"
    /\ mode = "excel"
    /\ Assemble(rows)
    /\ UNCHANGED <<mode, rootExists, absent, ncols, models, saves, written,
                   exitCode, fmtVars>>

\* After the loop: output_data = {"categories": categories}; save_json(output_data)
save_json ==
    /\ pc = "loop"
    /\ ci > Len(CATEGORY_MAPPING)
    /\ written' = Document(categories)
    /\ saves' = saves + 1
    /\ pc' = "done"
    /\ exitCode' = 0
    /\ UNCHANGED <<mode, rootExists, ci, absent, ncols, rows, models, categories,
                   blocks, fmtVars>>

Init == RunInit /\ FmtIdle

Next ==
    \/ CsvStart
    \/ ExcelStart
    \/ CsvCategory
    \/ ExcelCategory
    \/ CsvRow
    \/ CsvEnd
    \/ ExcelRow
    \/ ExcelEnd
    \/ save_json

Spec == Init /\ [][Next]_vars

FormatNext == Format \/ Reformat

FormatStart == FormatInit /\ RunIdle

FormatSpec == FormatStart /\ [][FormatNext]_vars

\* ------------------------------------------------ claims on the formatter

IsText(x) == x.k = "str"

\* The positions that bound the pieces of s between its dashes.
DashCuts(s) == {0, Len(s) + 1} \cup {i \in 1..Len(s) : IsDash(s[i])}

\* The pairs <<a, b>> of neighbouring cuts: s[a+1..b-1] is one piece.
DashPieces(s) ==
    {p \in DashCuts(s) \X DashCuts(s) :
        p[1] < p[2] /\ \A c \in DashCuts(s) : ~(p[1] < c /\ c < p[2])}

DigitsIn(s, p) == {i \in (p[1] + 1)..(p[2] - 1) : IsDigit(s[i])}
PointsIn(s, p) == {i \in (p[1] + 1)..(p[2] - 1) : s[i] = "."}

\* The piece has no digit and no point, or digits and points no number is made of.
Unparseable(s, p) ==
    \/ DigitsIn(s, p) \cup PointsIn(s, p) = {}
    \/ PointsIn(s, p) # {} /\ (Cardinality(PointsIn(s, p)) > 1 \/ DigitsIn(s, p) = {})

\* The case of C4 as the claim words it: "request" as written, in lower case.
PassthroughCase(x) ==
    /\ IsText(x)
    /\ x.v # <<>>
    /\ ~Contains(x.v, Request)
    /\ \E p \in DashPieces(x.v) : Unparseable(x.v, p)

\* The same case, "request" in any letter case.
PassthroughCaseAnyCase(x) ==
    PassthroughCase(x) /\ ~Contains(Lower(x.v), Request)

IntegerRangeCase(x) ==
    /\ IsText(x)
    /\ \A i \in 1..Len(x.v) : x.v[i] # "."
    /\ \A p \in DashPieces(x.v) : DigitsIn(x.v, p) # {}

\* The positions that bound the pieces of o between its en dashes.
EnDashCuts(o) == {0, Len(o) + 1} \cup {i \in 1..Len(o) : o[i] = EnDash}

\* The n-th smallest member of the set of numbers S.
Nth(S, n) == CHOOSE x \in S : Cardinality({y \in S : y < x}) = n - 1

\* The digits among s[a+1..b-1], in order.
DigitsBetween(s, a, b) == SelectSeq(SubSeq(s, a + 1, b - 1), IsDigit)

\* b is a peso sign and then digits in groups of three from the right, with
\* no leading zero unless it is 0 alone, and the digits are those of ds up to
\* leading zeros.
IsGroupedAmount(b, ds) ==
    /\ Len(b) >= 2
    /\ b[1] = Peso
    /\ LET g == SubSeq(b, 2, Len(b))
           d == SelectSeq(g, IsDigit)
       IN  /\ \A i \in 1..Len(g) :
                 IF (Len(g) - i + 1) % 4 = 0 THEN g[i] = "," ELSE IsDigit(g[i])
           /\ Len(d) = 1 \/ d[1] # "0"
           /\ Len(d) <= Len(ds)
           /\ SubSeq(ds, Len(ds) - Len(d) + 1, Len(ds)) = d
           /\ \A i \in 1..(Len(ds) - Len(d)) : ds[i] = "0"

\* o is the k pieces of s formatted, in order, with " ENDASH " between them.
IsFormattedRange(o, s) ==
    LET k == Cardinality(DashPieces(s))
        sc == DashCuts(s)
        oc == EnDashCuts(o)
    IN  /\ Cardinality(oc) = k + 1
        /\ \A j \in 1..k :
             LET a == Nth(oc, j)
                 b == Nth(oc, j + 1)
                 lo == IF j = 1 THEN a + 1 ELSE a + 2
                 hi == IF j = k THEN b - 1 ELSE b - 2
             IN  /\ j > 1 => o[a + 1] = " "
                 /\ j < k => o[b - 1] = " "
                 /\ IsGroupedAmount(SubSeq(o, lo, hi),
                                    DigitsBetween(s, Nth(sc, j), Nth(sc, j + 1)))

\* C5 as claimed: an input of k >= 1 dash-separated segments, each with a digit
\* and none with a point, gives k formatted segments in order, each the peso
\* sign and the integer in groups of three, joined by " ENDASH ".
C5_IntegerRangeFormatted ==
    (fpc # "call" /\ IntegerRangeCase(arg)) => IsFormattedRange(out, arg.v)

\* C5 as amended: the same, for an input that does not hold "request" in any
\* letter case.
C5_IntegerRangeFormattedNoRequest ==
    (fpc # "call" /\ IntegerRangeCase(arg) /\ ~Contains(Lower(arg.v), Request))
        => IsFormattedRange(out, arg.v)

\* A range of two integers, one of them with a thousands group, was formatted.
C5_Witness ==
    /\ fpc = "returned"
    /\ IntegerRangeCase(arg)
    /\ ~Contains(Lower(arg.v), Request)
    /\ Cardinality(DashPieces(arg.v)) = 2
    /\ \E i \in 1..Len(out) : out[i] = ","

\* C10: formatting the result of the formatter again changes nothing.
C10_Idempotent == fpc = "reformatted" => again = out

\* A range the first call rewrote has been formatted a second time.
C10_Witness ==
    /\ fpc = "reformatted"
    /\ IsText(arg)
    /\ out # arg.v
    /\ \E i \in 1..Len(out) : out[i] = EnDash
    /\ \E i \in 1..Len(out) : out[i] = "."

\* ---------------------------------------------------- claims on the run

Terminated == pc \in {"done", "exited", "crashed"}

\* The model field of a data row: the "Model" field, or the first cell.
ModelField(row) == IF mode = "csv" THEN row.Model ELSE row[1]

EmptyOrMissing(cell) == IsNone(cell) \/ (cell.k = "str" /\ cell.v = <<>>)

\* Empty or missing once turned to text and stripped.
BlankOrMissing(cell) == IsNone(cell) \/ Strip(PyStr(cell)) = <<>>

\* The 0-based index of the first row of block whose model field is in the
\* set of positions hits, or the row count when there is none.
FirstIndex(block, hits) ==
    IF hits = {} THEN Len(block)
    ELSE (CHOOSE i \in hits : \A j \in hits : i <= j) - 1

FirstEmpty(block) ==
    FirstIndex(block, {i \in 1..Len(block) : EmptyOrMissing(ModelField(block[i]))})

FirstBlank(block) ==
    FirstIndex(block, {i \in 1..Len(block) : BlankOrMissing(ModelField(block[i]))})

FirstNone(block) ==
    FirstIndex(block, {i \in 1..Len(block) : IsNone(ModelField(block[i]))})

Ids(cats) == [i \in 1..Len(cats) |-> cats[i].id]

\* The ids of the catalog entries whose source was there, in catalog order.
PresentIds ==
    LET keep == {i \in 1..Len(CATEGORY_MAPPING) : i \notin absent}
    IN  [n \in 1..Cardinality(keep) |-> CATEGORY_MAPPING[Nth(keep, n)].id]

\* C2: whichever sources are missing, a run that got past the startup check
\* completes, and what it wrote holds every present category once, in catalog
\* order, and no absent one.
C2_AbsentOmittedRunCompletes ==
    (Terminated /\ rootExists /\ absent # {}) =>
        /\ pc = "done"
        /\ written.k = "doc"
        /\ Ids(written.categories) = PresentIds

\* C3: when the root input location does not exist the process has exited
\* with status 1 as soon as it has moved at all: save_json was not called,
\* nothing was written and no category was looked at.
C3_MissingRootIsFatal ==
    (~rootExists /\ pc # "main") =>
        /\ pc = "exited"
        /\ exitCode = 1
        /\ saves = 0
        /\ written.k = "none"
        /\ ci = 1
        /\ absent = {}
        /\ categories = <<>>
        /\ rows = <<>>

\* The run was given a workbook that does not exist and has exited.
C3_Witness == mode = "excel" /\ ~rootExists /\ pc = "exited" /\ exitCode = 1

\* Every record emitted so far, those of the category being read included.
Emitted ==
    UNION {{categories[i].models[j] : j \in 1..Len(categories[i].models)} :
              i \in 1..Len(categories)}
    \cup (IF pc \in {"rows", "crashed"} THEN {models[j] : j \in 1..Len(models)} ELSE {})

\* C6: in the delimited-text path extraction stops, emitting nothing, at the
\* first row whose Model is missing or empty once stripped: no record has an
\* empty model and none comes from that row or a later one.
C6_CsvStopsAtBlankModel ==
    mode = "csv" =>
        /\ \A m \in Emitted : m.model # <<>>
        /\ pc = "rows" => Len(models) <= FirstBlank(rows)
        /\ \A i \in 1..Len(categories) :
             Len(categories[i].models) = FirstBlank(blocks[i])

\* C7: in the spreadsheet path a row before the stop row is skipped exactly
\* when its first cell is empty once turned to text and stripped, and no
\* record has an empty model.
C7_ExcelSkipsBlankModel ==
    mode = "excel" =>
        /\ \A m \in Emitted : m.model # <<>>
        /\ \A i \in 1..Len(categories) :
             Len(categories[i].models) =
                 Cardinality({j \in 1..FirstNone(blocks[i]) :
                                 ~BlankOrMissing(blocks[i][j][1])})

\* C8: in the spreadsheet path a row with a non-empty first cell whose second
\* or third cell is None, or is not there, gives variant "" or priceRange "",
\* and nothing is raised.
C8_AbsentCellsDefault ==
    (mode = "excel" /\ pc \in {"rows", "crashed"} /\ rows # <<>>) =>
        LET r == rows[Len(rows)]
        IN  ~BlankOrMissing(r[1]) /\ Truthy(r[1]) =>
              /\ pc # "crashed"
              /\ models # <<>>
              /\ (Len(r) < 2 \/ IsNone(r[2])) => models[Len(models)].variant = <<>>
              /\ (Len(r) < 3 \/ IsNone(r[3])) => models[Len(models)].priceRange = <<>>

\* C9: a run that got past the startup check calls save_json once, after the
\* last category, also when every source is missing.
C9_SavedOnceAfterAllCategories ==
    /\ saves <= 1
    /\ saves = 1 => (ci > Len(CATEGORY_MAPPING) /\ written.k = "doc")
    /\ (rootExists /\ Terminated) => saves = 1

====
